---------------------------- MODULE Spec2Model ----------------------------
(***************************************************************************)
(* AnimatedFAB (src/src/components/FAB/AnimatedFAB.tsx): the props, the    *)
(* measured text size, the two Animated.Value objects (visibility and      *)
(* animFAB) with the timing running on each, the two effects that start    *)
(* the timings, the text-layout handler, the colours resolved on every     *)
(* render and the interpolations derived from animFAB.                     *)
(*                                                                         *)
(* Units: positions are layout units; a frame shows the animated value     *)
(* truncated, toward the timing's start, to a whole number of Grid units   *)
(* from that start.  Visibility is in 1/VisibilityOne units, interpolation *)
(* results are exact rationals <<numerator, denominator>>, time is in      *)
(* milliseconds, a text-layout event carries its measurement in half       *)
(* units so that Math.ceil has something to round.                         *)
(***************************************************************************)
EXTENDS Integers, Sequences, FiniteSets, TLC

\* ------------------------------------------------------------------ bounds
\* measured widths are 0..MaxWidth steps of Grid; heights are 0..MaxHeight
MaxWidth == 1
MaxHeight == 1
\* the time between two animation frames
FrameMs == 100

\* the resolution of the visibility value: VisibilityOne stands for 1.0
VisibilityOne == 2

\* --------------------------------------------------------------- constants
SIZE == 56
BORDER_RADIUS == SIZE \div 2
\* the resolution of the animated position: half the corner radius, so that
\* every target is a whole number of steps
Grid == BORDER_RADIUS \div 2

VARIABLES
  status,            \* "mounted", or "crashed" once a render has thrown
  rangeCheck,        \* whether this build's interpolate() rejects a descending
                     \* inputRange: "on", "off", or "unknown" while no render had one
  visible, extended, animateFrom, scale,
  textWidth, textHeight,
  visibility, visibilityTiming,
  animFAB, animFABTiming,
  disabled, customColor, styleBackground, dark, accent,
  recording,         \* whether the history variable superseded is kept
  superseded         \* history: the target given up by a mid-flight toggle of extended,
                     \* while the timing that toggle started is running

vars == <<status, rangeCheck, visible, extended, animateFrom, scale,
          textWidth, textHeight, visibility, visibilityTiming,
          animFAB, animFABTiming,
          disabled, customColor, styleBackground, dark, accent,
          recording, superseded>>

animVars == <<status, rangeCheck, visible, extended, animateFrom, scale,
              textWidth, textHeight, visibility, visibilityTiming,
              animFAB, animFABTiming>>

colorVars == <<disabled, customColor, styleBackground, dark, accent, recording>>

\* theme.animation.scale: 1, or 0 when animations are switched off
Scales == {0, 1}
Widths == {k * Grid : k \in 0..MaxWidth}
RawWidths == {r \in 0..(2 * MaxWidth * Grid) : \E w \in Widths : r \in {2 * w - 1, 2 * w}}
RawHeights == 0..(2 * MaxHeight)
Directions == {"right", "left"}
Abs(x) == IF x < 0 THEN -x ELSE x
Min(a, b) == IF a <= b THEN a ELSE b
Max(a, b) == IF a >= b THEN a ELSE b
Between(x, a, b) == Min(a, b) <= x /\ x <= Max(a, b)

\* ------------------------------------------------------------- rationals
Rat(n) == <<n, 1>>
Frac(n, d) == IF d < 0 THEN <<-n, -d>> ELSE <<n, d>>
Throws == <<0, 0>>
Defined(a) == a[2] # 0
RatEq(a, b) == Defined(a) /\ Defined(b) /\ a[1] * b[2] = b[1] * a[2]
RatLE(a, b) == a[1] * b[2] <= b[1] * a[2]
RatSub(a, b) == <<a[1] * b[2] - b[1] * a[2], a[2] * b[2]>>
RatAdd(a, b) == <<a[1] * b[2] + b[1] * a[2], a[2] * b[2]>>
RatMul(a, b) == <<a[1] * b[1], a[2] * b[2]>>
RatDiv(a, b) == Frac(a[1] * b[2], a[2] * b[1])

\* ------------------------------------------------------ Animated.timing
AtRest(v) == [active |-> FALSE, from |-> v, to |-> v, duration |-> 0, elapsed |-> 0]

timingMutantReset(value, toValue, duration) ==
  [active |-> TRUE, from |-> 0, to |-> toValue, duration |-> duration, elapsed |-> 0]

\* Animated.timing(value, {toValue, duration}).start(): replaces whatever runs
\* on the value and starts from the value's current number.
timing(value, toValue, duration) ==
  [active |-> TRUE, from |-> value, to |-> toValue, duration |-> duration, elapsed |-> 0]

frameValueMutantOvershoot(t, e, grid) == t.to + (t.to - t.from)

\* linear easing: the number shown e milliseconds into the timing, in whole
\* steps of grid from the start
frameValue(t, e, grid) ==
  LET span == t.to - t.from
      steps == (Abs(span) * e) \div (t.duration * grid)
  IN t.from + (IF span < 0 THEN -1 ELSE 1) * steps * grid

\* one animation frame of one value: <<number, timing>> afterwards
advance(value, t, grid) ==
  IF ~t.active THEN <<value, t>>
  ELSE LET e == t.elapsed + FrameMs IN
       IF e >= t.duration THEN <<t.to, AtRest(t.to)>>
       ELSE <<frameValue(t, e, grid), [t EXCEPT !.elapsed = e]>>

\* ------------------------------------------------- values of one render
DistanceMutantUnsigned(dir, w) == w + BORDER_RADIUS

Distance(dir, w) == IF dir = "right" THEN -w - BORDER_RADIUS ELSE w + BORDER_RADIUS

distance == Distance(animateFrom, textWidth)

extendedWidthMutant(w) == w + SIZE

ExtendedWidth(w) == w + (3 * SIZE) \div 2

extendedWidth == ExtendedWidth(textWidth)

\* toValue of the extend effect
toValue(e, d) == IF ~e THEN 0 ELSE d

visibilityToValue(v) == IF v THEN VisibilityOne ELSE 0

visibilityDurationMutantSwapped(v, s) == IF v THEN 150 * s ELSE 200 * s

visibilityDuration(v, s) == IF v THEN 200 * s ELSE 150 * s

extendDuration(s) == 150 * s


\* ------------------------------------------------ Animated interpolation
\* checkValidInputRange of interpolate(): every breakpoint >= the one before
checkValidInputRange(inR) ==
  \A i \in 2..Len(inR) : RatLE(inR[i - 1], inR[i])

\* findRange of interpolate(): the first segment whose right breakpoint is
\* >= input, among all but the last; otherwise the last segment
findRange(input, inR) ==
  LET hits == {i \in 2..(Len(inR) - 1) : RatLE(input, inR[i])}
  IN IF hits = {} THEN Len(inR) - 1
     ELSE (CHOOSE i \in hits : \A j \in hits : i <= j) - 1

\* interpolate() with linear easing and extrapolate: 'extend'
interpolate(input, inR, outR) ==
  LET r == findRange(input, inR)
      inputMin == inR[r]
      inputMax == inR[r + 1]
      outputMin == outR[r]
      outputMax == outR[r + 1]
  IN IF RatEq(outputMin, outputMax) THEN outputMin
     ELSE IF RatEq(inputMin, inputMax)
          THEN (IF RatLE(input, inputMin) THEN outputMin ELSE outputMax)
          ELSE RatAdd(RatMul(RatDiv(RatSub(input, inputMin), RatSub(inputMax, inputMin)),
                             RatSub(outputMax, outputMin)),
                      outputMin)

\* The interpolation configurations of one render, for direction dir and
\* stored width w.
scaleYConfig(dir, w) ==
  LET d == Distance(dir, w) IN
  [inputRange |-> IF dir = "right" THEN <<Rat(d), Rat(0)>> ELSE <<Rat(0), Rat(d)>>,
   outputRange |-> IF dir = "right" THEN <<Frac(9, 10), Rat(1)>> ELSE <<Rat(1), Frac(9, 10)>>]

extendedShadowOpacityConfig(dir, w) ==
  LET d == Distance(dir, w) IN
  [inputRange |-> <<Rat(d), Frac(9 * d, 10), Rat(0)>>,
   outputRange |-> <<Rat(1), Frac(15, 100), Rat(0)>>]

collapsedShadowOpacityConfig(dir, w) ==
  LET d == Distance(dir, w) IN
  [inputRange |-> <<Rat(d), Frac(9 * d, 10), Rat(0)>>,
   outputRange |-> <<Rat(0), Frac(85, 100), Rat(1)>>]

borderRadiusConfig(dir, w) ==
  LET d == Distance(dir, w) IN
  [inputRange |-> <<Rat(d), Rat(0)>>,
   outputRange |-> <<RatDiv(Rat(SIZE), Frac(ExtendedWidth(w), SIZE)), Rat(BORDER_RADIUS)>>]

shadowTranslateXConfig(dir, w) ==
  LET d == Distance(dir, w) IN
  [inputRange |-> <<Rat(d), Rat(0)>>,
   outputRange |-> <<Frac(Abs(d), 2), Rat(Abs(d))>>]

scaleXConfig(dir, w) ==
  LET d == Distance(dir, w) IN
  [inputRange |-> <<Rat(d), Rat(0)>>,
   outputRange |-> <<Frac(ExtendedWidth(w), SIZE), Rat(1)>>]

labelOpacityConfig(dir, w) ==
  LET d == Distance(dir, w) IN
  [inputRange |-> IF dir = "right" THEN <<Rat(d), Frac(7 * d, 10), Rat(0)>>
                                   ELSE <<Rat(0), Frac(7 * d, 10), Rat(d)>>,
   outputRange |-> IF dir = "right" THEN <<Rat(1), Rat(0), Rat(0)>>
                                    ELSE <<Rat(0), Rat(0), Rat(1)>>]

labelTranslateXConfig(dir, w) ==
  LET d == Distance(dir, w) IN
  [inputRange |-> IF dir = "right" THEN <<Rat(d), Rat(0)>> ELSE <<Rat(0), Rat(d)>>,
   outputRange |-> IF dir = "right" THEN <<Rat(0), Rat(SIZE)>> ELSE <<Rat(-SIZE), Rat(0)>>]

\* every animFAB.interpolate(...) of the returned tree, in source order
interpolations(dir, w) ==
  <<scaleYConfig(dir, w), extendedShadowOpacityConfig(dir, w),
    collapsedShadowOpacityConfig(dir, w), borderRadiusConfig(dir, w),
    shadowTranslateXConfig(dir, w), scaleXConfig(dir, w),
    labelOpacityConfig(dir, w), labelTranslateXConfig(dir, w)>>

rangesValid(dir, w) ==
  \A i \in 1..Len(interpolations(dir, w)) :
     checkValidInputRange(interpolations(dir, w)[i].inputRange)

\* The outcomes <<status, rangeCheck>> of a render: a descending inputRange
\* throws in a build that validates ranges and is accepted in one that does
\* not; which build this is shows at the first such render.
renderOutcomes(check, dir, w) ==
  IF rangesValid(dir, w) THEN {<<"mounted", check>>}
  ELSE IF check = "off" THEN {<<"mounted", "off">>}
  ELSE {<<"mounted", "off">>, <<"crashed", "on">>}

\* the style value an interpolation gives at progress p in the current
\* render; Throws when the render did not produce a tree
styleAt(cfg, p) ==
  IF status = "crashed" THEN Throws
  ELSE interpolate(Rat(p), cfg.inputRange, cfg.outputRange)

borderRadius == styleAt(borderRadiusConfig(animateFrom, textWidth), animFAB)
scaleX == styleAt(scaleXConfig(animateFrom, textWidth), animFAB)
labelOpacity == styleAt(labelOpacityConfig(animateFrom, textWidth), animFAB)
\* the collapsed silhouette: width SIZE stretched by scaleX
silhouetteWidth == IF Defined(scaleX) THEN RatMul(Rat(SIZE), scaleX) ELSE Throws
\* the pill surface: width extendedWidth
pillWidth == IF status = "crashed" THEN Throws ELSE Rat(extendedWidth)

\* ------------------------------------------------------------- colours
Undefined == [hue |-> "undefined", alpha |-> 0]
white == [hue |-> "white", alpha |-> 100]
black == [hue |-> "black", alpha |-> 100]
yellow == [hue |-> "yellow", alpha |-> 100]
purple == [hue |-> "purple", alpha |-> 100]
darkInk == [hue |-> "black", alpha |-> 54]
Palette == {white, black, yellow, purple}

\* color(c).alpha(a).rgb().string()
withAlpha(c, a) == [hue |-> c.hue, alpha |-> a]

\* color(c).isLight()
isLight(c) == c.hue \in {"white", "yellow"}

getContrastingColor(input, light, dk) == IF isLight(input) THEN dk ELSE light

disabledColor == withAlpha(IF dark THEN white ELSE black, 12)

backgroundColor ==
  IF styleBackground # Undefined THEN styleBackground
  ELSE IF disabled THEN disabledColor ELSE accent

ForegroundMutantDisabledFirst(custom, dis, dk, bg) ==
  IF dis THEN withAlpha(IF dk THEN white ELSE black, 32)
  ELSE IF custom # Undefined THEN custom
  ELSE getContrastingColor(bg, white, darkInk)

Foreground(custom, dis, dk, bg) ==
  IF custom # Undefined THEN custom
  ELSE IF dis THEN withAlpha(IF dk THEN white ELSE black, 32)
  ELSE getContrastingColor(bg, white, darkInk)

foregroundColor == Foreground(customColor, disabled, dark, backgroundColor)

rippleColor == withAlpha(foregroundColor, 32)


\* ------------------------------------------------------------- effects
\* Math.ceil of a measurement given in half units
ceilMutantFloor(half) == half \div 2

ceil(half) == (half + 1) \div 2

visibilityDepsChanged(v1, s1, v2, s2) == v1 # v2 \/ s1 # s2

extendDepsChangedMutantAlways(s1, d1, e1, s2, d2, e2) == TRUE

extendDepsChanged(s1, d1, e1, s2, d2, e2) == s1 # s2 \/ d1 # d2 \/ e1 # e2

measurementChanged(cw, ch, tw, th) == cw # tw \/ ch # th

NoTarget == [set |-> FALSE, target |-> 0, covered |-> FALSE]

\* One render with props v, e, dir, s and state w, h, followed by the effects
\* whose dependencies changed.  A render that throws leaves the tree unmounted
\* and runs no effect.
Commit(v, e, dir, s, w, h) ==
  LET runVisibility == visibilityDepsChanged(visible, scale, v, s)
      runExtend == extendDepsChanged(scale, distance, extended, s, Distance(dir, w), e)
  IN
  /\ visible' = v /\ extended' = e /\ animateFrom' = dir /\ scale' = s
  /\ UNCHANGED <<visibility, animFAB>>
  /\ \E o \in renderOutcomes(rangeCheck, dir, w) :
       /\ status' = o[1] /\ rangeCheck' = o[2]
       /\ IF o[1] = "crashed"
          THEN UNCHANGED <<textWidth, textHeight, visibilityTiming, animFABTiming>>
          ELSE /\ textWidth' = w /\ textHeight' = h
               /\ visibilityTiming' =
                    IF runVisibility
                    THEN timing(visibility, visibilityToValue(v), visibilityDuration(v, s))
                    ELSE visibilityTiming
               /\ animFABTiming' =
                    IF runExtend
                    THEN timing(animFAB, toValue(e, Distance(dir, w)), extendDuration(s))
                    ELSE animFABTiming

\* ------------------------------------------------------------- actions
SetVisible(v) ==
  /\ status = "mounted" /\ v # visible
  /\ Commit(v, extended, animateFrom, scale, textWidth, textHeight)
  /\ UNCHANGED <<colorVars, superseded>>

SetExtended(e) ==
  /\ status = "mounted" /\ e # extended
  /\ Commit(visible, e, animateFrom, scale, textWidth, textHeight)
  /\ superseded' =
       IF recording /\ animFABTiming.active /\ animFAB # animFABTiming.to
       THEN [set |-> TRUE, target |-> animFABTiming.to,
             covered |-> Between(animFAB, 0, distance)]
       ELSE NoTarget
  /\ UNCHANGED colorVars

SetAnimateFrom(dir) ==
  /\ status = "mounted" /\ dir # animateFrom
  /\ Commit(visible, extended, dir, scale, textWidth, textHeight)
  /\ superseded' = [superseded EXCEPT !.covered = FALSE]
  /\ UNCHANGED colorVars

SetScale(s) ==
  /\ status = "mounted" /\ s # scale
  /\ Commit(visible, extended, animateFrom, s, textWidth, textHeight)
  /\ UNCHANGED <<colorVars, superseded>>

\* onTextLayout with lines[0] = {width: rawW / 2, height: rawH / 2}
onTextLayout(rawW, rawH) ==
  LET currentWidth == ceil(rawW)
      currentHeight == ceil(rawH)
  IN
  /\ status = "mounted"
  /\ IF measurementChanged(currentWidth, currentHeight, textWidth, textHeight)
     THEN Commit(visible, extended, animateFrom, scale, currentWidth, currentHeight)
     ELSE UNCHANGED animVars
  /\ UNCHANGED <<colorVars, superseded>>

\* the parent renders again with the same props
Rerender ==
  /\ status = "mounted"
  /\ Commit(visible, extended, animateFrom, scale, textWidth, textHeight)
  /\ UNCHANGED <<colorVars, superseded>>

\* one frame of the animation clock; every running timing advances
Frame ==
  /\ status = "mounted"
  /\ visibilityTiming.active \/ animFABTiming.active
  /\ visibility' = advance(visibility, visibilityTiming, 1)[1]
  /\ visibilityTiming' = advance(visibility, visibilityTiming, 1)[2]
  /\ animFAB' = advance(animFAB, animFABTiming, Grid)[1]
  /\ animFABTiming' = advance(animFAB, animFABTiming, Grid)[2]
  /\ superseded' = IF advance(animFAB, animFABTiming, Grid)[2].active THEN superseded ELSE NoTarget
  /\ UNCHANGED <<status, rangeCheck, visible, extended, animateFrom, scale,
                 textWidth, textHeight, colorVars>>

\* the state after the first render and the mount effects
Mount(v, e, dir, s) ==
  /\ visible = v /\ extended = e /\ animateFrom = dir /\ scale = s
  /\ textWidth = 0 /\ textHeight = 0
  /\ visibility = visibilityToValue(v)
  /\ animFAB = 0
  /\ superseded = NoTarget
  /\ \E o \in renderOutcomes("unknown", dir, 0) :
       /\ status = o[1] /\ rangeCheck = o[2]
       /\ IF o[1] = "crashed"
          THEN /\ visibilityTiming = AtRest(visibilityToValue(v))
               /\ animFABTiming = AtRest(0)
          ELSE /\ visibilityTiming =
                    timing(visibilityToValue(v), visibilityToValue(v), visibilityDuration(v, s))
               /\ animFABTiming = timing(0, toValue(e, Distance(dir, 0)), extendDuration(s))

DefaultColors ==
  /\ disabled = FALSE /\ customColor = Undefined /\ styleBackground = Undefined
  /\ dark = FALSE /\ accent = purple

Init ==
  /\ \E v \in BOOLEAN, e \in BOOLEAN, dir \in Directions, s \in Scales : Mount(v, e, dir, s)
  /\ DefaultColors
  /\ recording = FALSE

Next ==
  \/ \E v \in BOOLEAN : SetVisible(v)
  \/ \E e \in BOOLEAN : SetExtended(e)
  \/ \E dir \in Directions : SetAnimateFrom(dir)
  \/ \E s \in Scales : SetScale(s)
  \/ \E rawW \in RawWidths, rawH \in RawHeights : onTextLayout(rawW, rawH)
  \/ Rerender
  \/ Frame

Spec == Init /\ [][Next]_vars

\* ------------------------------------------ toggles of extended (C3)
\* The same widget with the history of mid-flight toggles recorded; visible
\* and the animation scale keep their values of the mount.
InitToggle ==
  /\ \E v \in BOOLEAN, e \in BOOLEAN, dir \in Directions, s \in Scales : Mount(v, e, dir, s)
  /\ DefaultColors
  /\ recording = TRUE

NextToggle ==
  \/ \E e \in BOOLEAN : SetExtended(e)
  \/ \E dir \in Directions : SetAnimateFrom(dir)
  \/ \E rawW \in RawWidths, rawH \in RawHeights : onTextLayout(rawW, rawH)
  \/ Frame

SpecToggle == InitToggle /\ [][NextToggle]_vars

\* ----------------------------------------- the end-to-end scenario (C4)
\* The widget mounts collapsed with the default animateFrom; extended is
\* switched on once, the probe reports one width, and frames run.
InitE2E ==
  /\ \E v \in BOOLEAN, s \in Scales : Mount(v, FALSE, "right", s)
  /\ DefaultColors
  /\ recording = FALSE

ExtendOnce == ~extended /\ SetExtended(TRUE)

MeasureOnce ==
  \E rawW \in RawWidths \ {0}, rawH \in RawHeights :
     textWidth = 0 /\ onTextLayout(rawW, rawH)

NextE2E == ExtendOnce \/ MeasureOnce \/ Frame

SpecE2E == InitE2E /\ [][NextE2E]_vars /\ WF_vars(Frame)

\* ------------------------------------------- colour props (C9)
SetDisabled(b) ==
  /\ status = "mounted" /\ b # disabled
  /\ Commit(visible, extended, animateFrom, scale, textWidth, textHeight)
  /\ disabled' = b
  /\ UNCHANGED <<customColor, styleBackground, dark, accent, recording, superseded>>

SetColor(c) ==
  /\ status = "mounted" /\ c # customColor
  /\ Commit(visible, extended, animateFrom, scale, textWidth, textHeight)
  /\ customColor' = c
  /\ UNCHANGED <<disabled, styleBackground, dark, accent, recording, superseded>>

SetStyle(bg) ==
  /\ status = "mounted" /\ bg # styleBackground
  /\ Commit(visible, extended, animateFrom, scale, textWidth, textHeight)
  /\ styleBackground' = bg
  /\ UNCHANGED <<disabled, customColor, dark, accent, recording, superseded>>

SetTheme(dk, ac) ==
  /\ status = "mounted" /\ <<dk, ac>> # <<dark, accent>>
  /\ Commit(visible, extended, animateFrom, scale, textWidth, textHeight)
  /\ dark' = dk /\ accent' = ac
  /\ UNCHANGED <<disabled, customColor, styleBackground, recording, superseded>>

InitColors ==
  /\ Mount(TRUE, FALSE, "right", 1)
  /\ recording = FALSE
  /\ disabled \in BOOLEAN /\ dark \in BOOLEAN
  /\ customColor \in Palette \cup {Undefined}
  /\ styleBackground \in Palette \cup {Undefined}
  /\ accent \in Palette

NextColors ==
  \/ \E b \in BOOLEAN : SetDisabled(b)
  \/ \E c \in Palette \cup {Undefined} : SetColor(c)
  \/ \E bg \in Palette \cup {Undefined} : SetStyle(bg)
  \/ \E dk \in BOOLEAN, ac \in Palette : SetTheme(dk, ac)

SpecColors == InitColors /\ [][NextColors]_vars

\* ================================================================ claims

ProgressInDistanceRange == Between(animFAB, 0, distance)

FrameMovesTowardTarget ==
  animFAB' # animFAB => Between(animFAB', animFAB, toValue(extended, distance))

\* C1, as stated: animFAB always lies within [min(0, distance), max(0, distance)]
\* for the distance of the stored width and direction, and every frame moves it
\* toward the current target without passing it.
C1_ProgressWithinDistance ==
  [](ProgressInDistanceRange) /\ [][FrameMovesTowardTarget]_vars

\* C1, amended: animFAB always lies between the value it had when the timing
\* now on it was started and that timing's target, and every frame moves it
\* toward the current target (0 when collapsed, distance when extended)
\* without passing it.
C1_ProgressWithinTimingSpan ==
  /\ [](Between(animFAB, animFABTiming.from, animFABTiming.to))
  /\ [][FrameMovesTowardTarget]_vars

\* C1 witness: a frame has put animFAB strictly between start and target.
C1_Witness ==
  /\ animFABTiming.active /\ animFABTiming.elapsed > 0
  /\ animFAB # animFABTiming.from /\ animFAB # animFABTiming.to

\* C2: a re-render that leaves extended, distance and the animation scale as
\* they were starts no timing on animFAB: while these three stay, the value
\* and the running timing (start, target, duration, elapsed time) are changed
\* by animation frames only.
C2_NoRestart ==
  [][((animFAB' # animFAB \/ animFABTiming' # animFABTiming)
        /\ extended' = extended /\ distance' = distance /\ scale' = scale)
       => Frame]_vars

\* C2 witness: visible was changed while the extend timing was part-way.
C2_Witness ==
  /\ animFABTiming.active /\ animFABTiming.elapsed > 0
  /\ animFAB # animFABTiming.to
  /\ visibilityTiming.active /\ visibilityTiming.elapsed = 0
  /\ visibilityTiming.from # visibilityTiming.to

ToggleMidFlight ==
  /\ extended' # extended /\ status' = "mounted"
  /\ animFABTiming.active /\ animFAB # animFABTiming.to

ToggleContinues ==
  ToggleMidFlight =>
    /\ animFAB' = animFAB
    /\ animFABTiming' = [active |-> TRUE, from |-> animFAB,
                         to |-> (IF extended' THEN distance ELSE 0),
                         duration |-> 150 * scale, elapsed |-> 0]

Reaches(target) ==
  animFAB' # animFAB /\ target # animFAB /\ Between(target, animFAB, animFAB')

C4_EndToEnd ==
  \A W \in Widths \ {0} :
    (extended /\ textWidth = W) ~>
       [](/\ distance = -(W + 28)
          /\ animFAB = distance
          /\ RatEq(labelOpacity, Rat(1))
          /\ RatEq(pillWidth, Rat(W + 84)))

\* C4 witness: the scenario has come to rest extended with a measured width.
C4_Witness ==
  /\ extended /\ textWidth > 0 /\ ~animFABTiming.active
  /\ animFAB = -(textWidth + 28)

WidthGrows == animateFrom' = animateFrom /\ textWidth < textWidth'

\* C5, as stated: with the direction fixed, a larger measured width gives a
\* larger distance.
C5_DistanceIncreases == [][WidthGrows => distance < distance']_vars

\* C5, amended: with the direction fixed, a larger measured width gives a
\* distance of larger magnitude: larger for left, smaller (more negative) for
\* right.
C5_DistanceMagnitudeIncreases ==
  [][WidthGrows =>
       /\ Abs(distance) < Abs(distance')
       /\ (animateFrom = "left" => distance < distance')
       /\ (animateFrom = "right" => distance' < distance)]_vars

\* C5 witness: a width has been measured.
C5_Witness == status = "mounted" /\ textWidth > 0 /\ animateFrom = "left"

\* C6: at progress 0 the collapsed silhouette is SIZE wide with corner radius
\* 28; at progress = distance the pill is textWidth + 84 wide and the label
\* opacity is 1; for every width and both directions.
C6_EndpointConsistency ==
  /\ animFAB = 0 =>
       /\ RatEq(silhouetteWidth, Rat(56))
       /\ RatEq(borderRadius, Rat(28))
  /\ animFAB = distance =>
       /\ RatEq(pillWidth, Rat(textWidth + 84))
       /\ RatEq(labelOpacity, Rat(1))

SameMeasurement(rawW, rawH) ==
  (rawW + 1) \div 2 = textWidth /\ (rawH + 1) \div 2 = textHeight

\* C7: a text-layout event changes the stored width and height only when the
\* measurement, rounded up, differs from them; an event that reports the
\* stored values leaves them, distance, animFAB and its timing as they are.
C7_LayoutOnlyOnChange ==
  [][(\/ <<textWidth, textHeight, animFAB, animFABTiming>>' #
            <<textWidth, textHeight, animFAB, animFABTiming>>
      \/ distance' # distance)
       => \A rawW \in RawWidths, rawH \in RawHeights :
             SameMeasurement(rawW, rawH) => ~onTextLayout(rawW, rawH)]_vars

\* C7 witness: a width and a height are stored while the extend timing is
\* part-way, the state in which a repeated event would restart it.
C7_Witness ==
  /\ textWidth > 0 /\ textHeight > 0
  /\ animFABTiming.active /\ animFABTiming.elapsed > 0

VisibleChangeOnlyVisibility ==
  visible' # visible =>
    /\ visibilityTiming' = [active |-> TRUE, from |-> visibility,
                            to |-> (IF visible' THEN VisibilityOne ELSE 0),
                            duration |-> (IF visible' THEN 200 ELSE 150) * scale,
                            elapsed |-> 0]
    /\ UNCHANGED <<visibility, animFAB, animFABTiming>>

ExtendChangeOnlyProgress ==
  (extended' # extended \/ textWidth' # textWidth \/ textHeight' # textHeight) =>
    /\ UNCHANGED <<visibility, visibilityTiming, animFAB>>
    /\ (extended' # extended \/ textWidth' # textWidth) =>
          animFABTiming' = [active |-> TRUE, from |-> animFAB,
                            to |-> (IF extended' THEN distance' ELSE 0),
                            duration |-> 150 * scale, elapsed |-> 0]

\* C8: a change of visible starts a timing on visibility only (to 1 over
\* 200 * scale, to 0 over 150 * scale); a change of extended or of the
\* measurement touches animFAB's timing only; visibility stays within [0, 1].
C8_IndependentValues ==
  /\ [](0 <= visibility /\ visibility <= VisibilityOne)
  /\ [][VisibleChangeOnlyVisibility /\ ExtendChangeOnlyProgress]_vars

\* C8 witness: both timings are running, started at different moments.
C8_Witness ==
  /\ visibilityTiming.active /\ visibilityTiming.elapsed > 0
  /\ visibilityTiming.from # visibilityTiming.to
  /\ animFABTiming.active /\ animFABTiming.elapsed = 0
  /\ animFAB # animFABTiming.to

neutralInk == IF dark THEN "white" ELSE "black"

\* C9: foreground is the caller's color when given, else neutral ink at 32%
\* when disabled, else the ink that contrasts with the background; ripple is
\* the foreground at 32%; the background is the style's when given, else
\* neutral ink at 12% when disabled.
C9_ColorPriority ==
  /\ customColor # Undefined => foregroundColor = customColor
  /\ (customColor = Undefined /\ disabled) =>
        foregroundColor = [hue |-> neutralInk, alpha |-> 32]
  /\ (customColor = Undefined /\ ~disabled) =>
        foregroundColor = (IF backgroundColor.hue \in {"white", "yellow"}
                           THEN [hue |-> "black", alpha |-> 54]
                           ELSE [hue |-> "white", alpha |-> 100])
  /\ rippleColor = [hue |-> foregroundColor.hue, alpha |-> 32]
  /\ (disabled /\ styleBackground = Undefined) =>
        backgroundColor = [hue |-> neutralInk, alpha |-> 12]
  /\ styleBackground # Undefined => backgroundColor = styleBackground

\* C9 witness: disabled with a caller color and no style background.
C9_Witness ==
  /\ disabled /\ customColor # Undefined /\ styleBackground = Undefined /\ dark

\* what each interpolation is meant to give: <<collapsed, extended>>
expectedOutputs(dir, w) ==
  LET d == Distance(dir, w) IN
  << <<Rat(1), Frac(9, 10)>>,
     <<Rat(0), Rat(1)>>,
     <<Rat(1), Rat(0)>>,
     <<Rat(28), Frac(56 * 56, w + 84)>>,
     <<Rat(Abs(d)), Frac(Abs(d), 2)>>,
     <<Rat(1), Frac(w + 84, 56)>>,
     <<Rat(0), Rat(1)>>,
     IF dir = "right" THEN <<Rat(56), Rat(0)>> ELSE <<Rat(-56), Rat(0)>> >>

\* C10: for both directions and every width, each interpolation of animFAB
\* has its input breakpoints in ascending order, gives its collapsed output
\* at progress 0 and its extended output at progress = distance.
C10_AscendingRanges ==
  \A i \in 1..Len(interpolations(animateFrom, textWidth)) :
    LET cfg == interpolations(animateFrom, textWidth)[i]
        want == expectedOutputs(animateFrom, textWidth)[i]
    IN /\ checkValidInputRange(cfg.inputRange)
       /\ RatEq(interpolate(Rat(0), cfg.inputRange, cfg.outputRange), want[1])
       /\ RatEq(interpolate(Rat(distance), cfg.inputRange, cfg.outputRange), want[2])

==========================================================================
